---- MODULE Spec2Model ----
(***************************************************************************)
(* MapFlow maintenance scripts.                                            *)
(*                                                                         *)
(*   resolve_conflict.py      resolve_conflict(input_path, output_path):   *)
(*                            one scan over the lines of a file, driven by *)
(*                            the three-valued variable mode.              *)
(*   scripts/fix_formatting.py  fix_file(file_path): end-of-line and       *)
(*                            trailing-whitespace normaliser.              *)
(*                                                                         *)
(* A text line is a sequence of one-character strings and ends with "\n"   *)
(* as readlines() returns it; a file opened 'rb' is a sequence of byte     *)
(* values.                                                                 *)
(***************************************************************************)
EXTENDS Integers, Sequences, FiniteSets

VARIABLES
    doc,          \* the block structure the input text was assembled from
    lines,        \* resolve_conflict: lines = f.readlines()
    pos,          \* resolve_conflict: index of the line the for loop is at
    mode,         \* resolve_conflict: "normal", "head" or "skip"
    out,          \* resolve_conflict: the lines written to output_path so far
    pc,           \* resolve_conflict: "loop" inside the with block, then "closed"
    file_path,    \* fix_file: its argument
    original,     \* fix_file: the bytes of the file when fix_file was called
    disk,         \* fix_file: the bytes of the file now
    content,      \* fix_file: local variable content
    new_content,  \* fix_file: local variable new_content
    ret,          \* fix_file: the value returned
    raised,       \* fix_file: an exception reached the except clause
    fpc           \* fix_file: position in the function

resolveVars == <<doc, lines, pos, mode, out, pc>>
fixVars == <<file_path, original, disk, content, new_content, ret, raised, fpc>>
vars == <<doc, lines, pos, mode, out, pc,
          file_path, original, disk, content, new_content, ret, raised, fpc>>

(***************************************************************************)
(* Bounds of the model.                                                    *)
(***************************************************************************)
MaxLen == 4
MaxItems == 3
MaxBytes == 4

(***************************************************************************)
(* str and bytes operations the scripts use.                               *)
(***************************************************************************)
RECURSIVE SeqsUpTo(_, _)
SeqsUpTo(S, n) ==
    IF n = 0 THEN {<<>>}
    ELSE LET shorter == SeqsUpTo(S, n - 1)
         IN  shorter \cup {Append(s, x) : s \in {t \in shorter : Len(t) = n - 1}, x \in S}

RECURSIVE Concat(_)
Concat(ss) == IF ss = <<>> THEN <<>> ELSE Head(ss) \o Concat(Tail(ss))

\* str.strip() without arguments removes these from both ends.
StrWhitespace == {" ", "\t", "\n", "\r", "\f"}

RECURSIVE LStrip(_)
LStrip(s) == IF s = <<>> \/ Head(s) \notin StrWhitespace THEN s ELSE LStrip(Tail(s))

RECURSIVE RStrip(_)
RStrip(s) ==
    IF s = <<>> \/ s[Len(s)] \notin StrWhitespace THEN s
    ELSE RStrip(SubSeq(s, 1, Len(s) - 1))

Strip(s) == RStrip(LStrip(s))

StartsWith(s, p) == Len(s) >= Len(p) /\ SubSeq(s, 1, Len(p)) = p

EndsWith(s, p) == Len(s) >= Len(p) /\ SubSeq(s, Len(s) - Len(p) + 1, Len(s)) = p

Contains(s, p) == \E i \in 1..(Len(s) - Len(p) + 1) : SubSeq(s, i, i + Len(p) - 1) = p

(***************************************************************************)
(* resolve_conflict: the three literals it looks for.                      *)
(***************************************************************************)
StartLiteral == <<"<", "<", "<", "<", "<", "<", "<", " ", "H", "E", "A", "D">>
SeparatorLiteral == <<"=", "=", "=", "=", "=", "=", "=">>
EndLiteral == <<">", ">", ">", ">", ">", ">", ">">>

IsStartMarker(line) == StartsWith(Strip(line), StartLiteral)

IsSeparatorMarkerContains(line) == Contains(Strip(line), SeparatorLiteral)
IsSeparatorMarker(line) == StartsWith(Strip(line), SeparatorLiteral)

IsEndMarker(line) == StartsWith(Strip(line), EndLiteral)

\* The if/elif chain: the first branch whose test holds.
Branch(line) ==
    IF IsStartMarker(line) THEN "start"
    ELSE IF IsSeparatorMarker(line) THEN "separator"
    ELSE IF IsEndMarker(line) THEN "end"
    ELSE "plain"

\* The mode after the line: a plain line leaves it alone.
ModeAfter(m, line) ==
    CASE Branch(line) = "start" -> "head"
      [] Branch(line) = "separator" -> "skip"
      [] Branch(line) = "end" -> "normal"
      [] OTHER -> m

ShouldWriteNormalOnly(m) == m = "normal"
ShouldWriteHeadOnly(m) == m = "head"
ShouldWrite(m) == m = "normal" \/ m = "head"

WrittenStripped(line) == <<Strip(line)>>
Written(line) == <<line>>

\* What one iteration of the loop appends to the output file.
Emitted(m, line) ==
    IF Branch(line) = "plain" /\ ShouldWrite(m) THEN Written(line) ELSE <<>>

\* The whole loop as a function of the lines still to read and the mode.
RECURSIVE ResolveFrom(_, _)
ResolveFrom(ls, m) ==
    IF ls = <<>> THEN <<>>
    ELSE Emitted(m, Head(ls)) \o ResolveFrom(Tail(ls), ModeAfter(m, Head(ls)))

Resolve(ls) == ResolveFrom(ls, "normal")

(***************************************************************************)
(* Input text of resolve_conflict.  Lines are drawn from a vocabulary that *)
(* holds plain lines, the three marker lines the script knows (one of them *)
(* indented), a start marker labelled with another branch, a diff3 base    *)
(* marker, and a plain line that holds the separator literal but does not  *)
(* begin with it.                                                          *)
(***************************************************************************)
LineA == <<"a", "\n">>
LineB == <<"b", "\n">>
LineStartHead == StartLiteral \o <<"\n">>
LineStartHeadIndented == <<" ">> \o StartLiteral \o <<"\n">>
LineStartFeature == <<"<", "<", "<", "<", "<", "<", "<", " ", "f", "\n">>
LineBase == <<"|", "|", "|", "|", "|", "|", "|", "\n">>
LineSeparator == SeparatorLiteral \o <<"\n">>
LineEnd == EndLiteral \o <<" ", "b", "\n">>
LineAssign == <<"a", " ">> \o SeparatorLiteral \o <<"\n">>

Vocabulary ==
    {LineA, LineB, LineStartHead, LineStartHeadIndented, LineStartFeature,
     LineBase, LineSeparator, LineEnd, LineAssign}

\* The four marker sigils of the conflict convention.
StartSigil == <<"<", "<", "<", "<", "<", "<", "<">>
BaseSigil == <<"|", "|", "|", "|", "|", "|", "|">>
HasSigil(line, sigil) == StartsWith(Strip(line), sigil)
IsMarkerLine(line) ==
    \/ HasSigil(line, StartSigil)
    \/ HasSigil(line, BaseSigil)
    \/ HasSigil(line, SeparatorLiteral)
    \/ HasSigil(line, EndLiteral)

\* A structured input: a sequence of items, each a plain line or a conflict
\* block with a start marker, a local segment, an optional base section (the
\* base marker and the base segment behind it), a separator, an incoming
\* segment and an end marker.
PlainItems == {[kind |-> "plain", line |-> l] : l \in {LineA, LineB}}
BlockItems ==
    {b \in [kind : {"block"},
            start : {LineStartHead, LineStartFeature},
            local : {<<>>, <<LineA>>, <<LineA, LineB>>},
            base : {<<>>, <<LineBase, LineB>>},
            incoming : {<<>>, <<LineB>>}] :
        \/ b.start = LineStartHead /\ b.base = <<>>
        \/ b.local = <<LineA>> /\ b.incoming = <<LineB>>}
Items == PlainItems \cup BlockItems

ItemLines(it) ==
    IF it.kind = "plain" THEN <<it.line>>
    ELSE <<it.start>> \o it.local
         \o it.base \o <<LineSeparator>> \o it.incoming \o <<LineEnd>>

Flatten(d) == Concat([i \in 1..Len(d) |-> ItemLines(d[i])])

\* What KeepLocal keeps of a structured input: the plain lines outside the
\* blocks and each block's local segment.
ItemKept(it) == IF it.kind = "plain" THEN <<it.line>> ELSE it.local
KeepLocal(d) == Concat([i \in 1..Len(d) |-> ItemKept(d[i])])

(***************************************************************************)
(* resolve_conflict as a state machine: one action per branch of the loop  *)
(* body, one for leaving the with block.                                   *)
(***************************************************************************)
ResolveIdle ==
    /\ doc = <<>> /\ lines = <<>> /\ pos = 1 /\ mode = "normal"
    /\ out = <<>> /\ pc = "closed"

FixIdle ==
    /\ file_path = <<>> /\ original = <<>> /\ disk = <<>> /\ content = <<>>
    /\ new_content = <<>> /\ ret = FALSE /\ raised = FALSE /\ fpc = "returned"

ResolveStart(d, ls) ==
    /\ doc = d
    /\ lines = ls
    /\ pos = 1
    /\ mode = "normal"
    /\ out = <<>>
    /\ pc = "loop"

\* Any text of at most MaxLen lines.
Init ==
    /\ \E ls \in SeqsUpTo(Vocabulary, MaxLen) : ResolveStart(<<>>, ls)
    /\ FixIdle

\* A text assembled from at most MaxItems plain lines and conflict blocks.
InitBlocks ==
    /\ \E d \in SeqsUpTo(Items, MaxItems) : ResolveStart(d, Flatten(d))
    /\ FixIdle

AtLine == pc = "loop" /\ pos <= Len(lines)

Advance(line) ==
    /\ mode' = ModeAfter(mode, line)
    /\ out' = out \o Emitted(mode, line)
    /\ pos' = pos + 1
    /\ UNCHANGED <<doc, lines, pc>>
    /\ UNCHANGED fixVars

StartMarkerLine ==
    /\ AtLine
    /\ Branch(lines[pos]) = "start"
    /\ Advance(lines[pos])

SeparatorLine ==
    /\ AtLine
    /\ Branch(lines[pos]) = "separator"
    /\ Advance(lines[pos])

EndMarkerLine ==
    /\ AtLine
    /\ Branch(lines[pos]) = "end"
    /\ Advance(lines[pos])

WriteLine ==
    /\ AtLine
    /\ Branch(lines[pos]) = "plain"
    /\ ShouldWrite(mode)
    /\ Advance(lines[pos])

DropLine ==
    /\ AtLine
    /\ Branch(lines[pos]) = "plain"
    /\ ~ShouldWrite(mode)
    /\ Advance(lines[pos])

CloseOutput ==
    /\ pc = "loop"
    /\ pos > Len(lines)
    /\ pc' = "closed"
    /\ UNCHANGED <<doc, lines, pos, mode, out>>
    /\ UNCHANGED fixVars

Next ==
    \/ StartMarkerLine
    \/ SeparatorLine
    \/ EndMarkerLine
    \/ WriteLine
    \/ DropLine
    \/ CloseOutput

Spec == Init /\ [][Next]_vars
SpecBlocks == InitBlocks /\ [][Next]_vars

Closed == pc = "closed"

(***************************************************************************)
(* fix_file(file_path).  The file is read and written in binary mode: its  *)
(* content is a sequence of byte values.                                   *)
(***************************************************************************)
CR == 13
LF == 10

\* bytes.rstrip() without arguments removes these: b' \t\n\r\x0b\x0c'.
BytesWhitespace == {32, 9, 10, 13, 11, 12}

\* The tuple exts.
Exts ==
    {<<".", "r", "s">>, <<".", "m", "d">>, <<".", "t", "o", "m", "l">>,
     <<".", "y", "a", "m", "l">>, <<".", "y", "m", "l">>,
     <<".", "w", "g", "s", "l">>, <<".", "j", "s", "o", "n">>,
     <<".", "p", "s", "1">>, <<".", "s", "h">>, <<".", "b", "a", "t">>}

HasListedExt(path) == \E e \in Exts : EndsWith(path, e)

\* content.replace(b'\r\n', b'\n'): left to right, non-overlapping.
RECURSIVE ReplaceCRLF(_)
ReplaceCRLF(bs) ==
    IF Len(bs) < 2 THEN bs
    ELSE IF bs[1] = CR /\ bs[2] = LF THEN <<LF>> \o ReplaceCRLF(SubSeq(bs, 3, Len(bs)))
    ELSE <<bs[1]>> \o ReplaceCRLF(Tail(bs))

\* content.split(b'\n'): always at least one element.
RECURSIVE SplitLF(_)
SplitLF(bs) ==
    IF \A i \in 1..Len(bs) : bs[i] # LF THEN <<bs>>
    ELSE LET i == CHOOSE k \in 1..Len(bs) :
                      bs[k] = LF /\ \A j \in 1..(k - 1) : bs[j] # LF
         IN  <<SubSeq(bs, 1, i - 1)>> \o SplitLF(SubSeq(bs, i + 1, Len(bs)))

RECURSIVE RStripBytes(_)
RStripBytes(bs) ==
    IF bs = <<>> \/ bs[Len(bs)] \notin BytesWhitespace THEN bs
    ELSE RStripBytes(SubSeq(bs, 1, Len(bs) - 1))

\* b'\n'.join(ls)
RECURSIVE JoinLF(_)
JoinLF(ls) ==
    IF ls = <<>> THEN <<>>
    ELSE IF Len(ls) = 1 THEN ls[1]
    ELSE ls[1] \o <<LF>> \o JoinLF(Tail(ls))

FixedLines(c) == LET ls == SplitLF(c) IN [i \in 1..Len(ls) |-> RStripBytes(ls[i])]

NewContent(c) == RStripBytes(JoinLF(FixedLines(c))) \o <<LF>>

\* File names and contents fix_file is called with.
Paths ==
    {<<"a", ".", "r", "s">>, <<"a", ".", "m", "d">>,
     <<"a", ".", "t", "x", "t">>, <<"r", "s">>}
InputBytes == {CR, LF, 32, 97}

InitFix ==
    /\ ResolveIdle
    /\ file_path \in Paths
    /\ original \in SeqsUpTo(InputBytes, MaxBytes)
    /\ disk = original
    /\ content = <<>>
    /\ new_content = <<>>
    /\ ret = FALSE
    /\ raised = FALSE
    /\ fpc = "call"

\* if file_path.endswith(exts) is false: return False
FixNotListed ==
    /\ fpc = "call"
    /\ ~HasListedExt(file_path)
    /\ ret' = FALSE
    /\ fpc' = "returned"
    /\ UNCHANGED <<file_path, original, disk, content, new_content, raised>>
    /\ UNCHANGED resolveVars

\* with open(file_path, 'rb') as f: content = f.read()
FixRead ==
    /\ fpc = "call"
    /\ HasListedExt(file_path)
    /\ content' = disk
    /\ fpc' = "read"
    /\ UNCHANGED <<file_path, original, disk, new_content, ret, raised>>
    /\ UNCHANGED resolveVars

\* open or read raises: the except clause prints, fix_file returns False
FixReadError ==
    /\ fpc = "call"
    /\ HasListedExt(file_path)
    /\ raised' = TRUE
    /\ ret' = FALSE
    /\ fpc' = "returned"
    /\ UNCHANGED <<file_path, original, disk, content, new_content>>
    /\ UNCHANGED resolveVars

\* content is reassigned to the CRLF-free bytes, new_content is built from it
FixNormalise ==
    /\ fpc = "read"
    /\ content' = ReplaceCRLF(content)
    /\ new_content' = NewContent(ReplaceCRLF(content))
    /\ fpc' = "compare"
    /\ UNCHANGED <<file_path, original, disk, ret, raised>>
    /\ UNCHANGED resolveVars

\* if content != new_content: write new_content, return True
FixWrite ==
    /\ fpc = "compare"
    /\ content # new_content
    /\ disk' = new_content
    /\ ret' = TRUE
    /\ fpc' = "returned"
    /\ UNCHANGED <<file_path, original, content, new_content, raised>>
    /\ UNCHANGED resolveVars

\* open(file_path, 'wb') raises and the file is as it was, or the write
\* raises after open truncated the file
FixWriteError ==
    /\ fpc = "compare"
    /\ content # new_content
    /\ disk' \in {disk, <<>>}
    /\ raised' = TRUE
    /\ ret' = FALSE
    /\ fpc' = "returned"
    /\ UNCHANGED <<file_path, original, content, new_content>>
    /\ UNCHANGED resolveVars

\* content == new_content: nothing is written, return False
FixUnchanged ==
    /\ fpc = "compare"
    /\ content = new_content
    /\ ret' = FALSE
    /\ fpc' = "returned"
    /\ UNCHANGED <<file_path, original, disk, content, new_content, raised>>
    /\ UNCHANGED resolveVars

NextFix ==
    \/ FixNotListed
    \/ FixRead
    \/ FixReadError
    \/ FixNormalise
    \/ FixWrite
    \/ FixWriteError
    \/ FixUnchanged

SpecFix == InitFix /\ [][NextFix]_vars

Returned == fpc = "returned"

(***************************************************************************)
(* Properties of resolve_conflict.                                         *)
(***************************************************************************)
RECURSIVE IsSubsequence(_, _)
IsSubsequence(a, b) ==
    IF a = <<>> THEN TRUE
    ELSE IF b = <<>> THEN FALSE
    ELSE IF Head(a) = Head(b) THEN IsSubsequence(Tail(a), Tail(b))
    ELSE IsSubsequence(a, Tail(b))

NoMarkerLine(ls) == \A i \in 1..Len(ls) : ~IsMarkerLine(ls[i])

IsBlock(it) == it.kind = "block"
HasBlock(d) == \E i \in 1..Len(d) : IsBlock(d[i])
AllTwoWay(d) == \A i \in 1..Len(d) : IsBlock(d[i]) => d[i].base = <<>>
AllHead(d) == \A i \in 1..Len(d) : IsBlock(d[i]) => d[i].start = LineStartHead

\* C1: for a text made of plain lines and one or more well-formed two-way
\* blocks opened by "<<<<<<< HEAD", the finished output is exactly the plain
\* lines outside the blocks and the local segment of each block, in order.
C1_KeepLocalOfTwoWayBlocks ==
    (Closed /\ HasBlock(doc) /\ AllTwoWay(doc) /\ AllHead(doc)) => out = KeepLocal(doc)

C1_Witness ==
    /\ Closed
    /\ Len(doc) = 3
    /\ IsBlock(doc[1]) /\ ~IsBlock(doc[2]) /\ IsBlock(doc[3])
    /\ AllTwoWay(doc) /\ AllHead(doc)
    /\ doc[1].local = <<LineA>> /\ doc[1].incoming = <<LineB>>
    /\ doc[3].local = <<LineA, LineB>> /\ doc[3].incoming = <<LineB>>
    /\ out = <<LineA>> \o <<doc[2].line>> \o <<LineA, LineB>>

\* C2: a text with no marker line comes out unchanged.
C2_PassThrough == (Closed /\ NoMarkerLine(lines)) => out = lines

C2_Witness ==
    /\ Closed
    /\ NoMarkerLine(lines)
    /\ Len(lines) = 3
    /\ \E i \in 1..Len(lines) : lines[i] = LineAssign
    /\ out = lines

OpenAtEnd(s) ==
    /\ IsStartMarker(lines[s])
    /\ \A j \in (s + 1)..Len(lines) :
          ~HasSigil(lines[j], StartSigil) /\ ~HasSigil(lines[j], EndLiteral)

\* C3: when the text ends inside an open block (a start marker after which
\* no end marker and no further start marker follows), every line from that
\* start marker to the end of the text is in the output, the start marker
\* line included.
C3_UnterminatedBlockKept ==
    Closed =>
        \A s \in 1..Len(lines) :
            OpenAtEnd(s) => EndsWith(out, SubSeq(lines, s, Len(lines)))

OnlyStrayMarkers(ls) ==
    \A i \in 1..Len(ls) :
        ~HasSigil(ls[i], StartSigil) /\ ~HasSigil(ls[i], BaseSigil)

\* C4: outside any block (no start marker has been read, so none is open) a
\* line beginning with "=======" or ">>>>>>>" is written like a plain line
\* and the plain lines after it are written too: a text of plain lines and
\* such stray markers comes out unchanged.
C4_StrayMarkerIsPlain == (Closed /\ OnlyStrayMarkers(lines)) => out = lines

\* C5: resolving is idempotent: resolving the finished output again returns
\* it unchanged.
C5_Idempotent == Closed => Resolve(out) = out

C5_Witness ==
    /\ Closed
    /\ \E i \in 1..Len(lines) : IsStartMarker(lines[i])
    /\ \E i \in 1..Len(lines) : IsSeparatorMarker(lines[i])
    /\ out # <<>>
    /\ Len(out) + 2 < Len(lines)
    /\ Resolve(out) = out

\* C6: at every step of the scan the text written so far is an
\* order-preserving subsequence of the lines read so far.
C6_OutputIsSubsequence == IsSubsequence(out, SubSeq(lines, 1, pos - 1))

C6_Witness ==
    /\ AtLine
    /\ mode = "skip"
    /\ out # <<>>
    /\ Len(out) + 2 < pos
    /\ IsSubsequence(out, SubSeq(lines, 1, pos - 1))

\* C7: a start marker with a label other than HEAD opens a block like
\* "<<<<<<< HEAD" does: for a text of plain lines and well-formed two-way
\* blocks, whatever the labels of their start markers, the output is the
\* plain lines and the local segments.
C7_AnyLabelOpensBlock == (Closed /\ AllTwoWay(doc)) => out = KeepLocal(doc)

\* C8: a three-way block contributes its local segment only: neither the
\* base marker nor a base-segment line is written.
C8_BaseSectionNotWritten == (Closed /\ AllHead(doc)) => out = KeepLocal(doc)

BlockOpen(s, p) ==
    /\ s < p
    /\ IsStartMarker(lines[s])
    /\ \A j \in (s + 1)..(p - 1) :
          /\ ~HasSigil(lines[j], StartSigil)
          /\ ~HasSigil(lines[j], BaseSigil)
          /\ ~HasSigil(lines[j], EndLiteral)
    /\ Cardinality({j \in (s + 1)..(p - 1) : HasSigil(lines[j], SeparatorLiteral)}) <= 1
IsPlainLine(line) == ~IsMarkerLine(line)
Collected(s, p) == SelectSeq(SubSeq(lines, s + 1, p - 1), IsPlainLine)

\* C9: when a start marker is read while a block is open, every line
\* collected for the open block so far, its incoming lines included, has
\* been written once the start marker is consumed, and the start marker
\* opens a new block.
C9_NestedStartFlushes ==
    \A s \in 1..Len(lines) :
        (pos > 1 /\ pos - 1 <= Len(lines) /\ IsStartMarker(lines[pos - 1])
         /\ BlockOpen(s, pos - 1))
            => (EndsWith(out, Collected(s, pos - 1)) /\ mode = "head")

(***************************************************************************)
(* Properties of fix_file.                                                 *)
(***************************************************************************)
\* The normalised form of a file: every CRLF an LF, no trailing whitespace
\* on any line, exactly one LF at the end.
Normalised(bs) == NewContent(ReplaceCRLF(bs))


\* C10: after fix_file returns without an exception for a file with a
\* listed extension, the bytes on disk are the normalised form of the
\* original bytes, whether it returned True or False.
C10_DiskIsNormalised ==
    (Returned /\ ~raised /\ HasListedExt(file_path)) => disk = Normalised(original)

====
